---- MODULE Spec2Model ----
(***************************************************************************)
(* Model of the wachat binary manager (service.BinaryManager) and of the   *)
(* operating-system resources it acts on: the cache/bin directory, the     *)
(* embedded payload, the child processes and their waiter goroutines.      *)
(***************************************************************************)
EXTENDS Integers, Sequences, FiniteSets, TLC

\* ---------------------------------------------------------------- bounds
MaxOrder == 2
MaxProcs == 2

\* ------------------------------------------------------------- universes
Names == {"a", "b"}

\* File contents: no file, some content that is not the payload's, the payload's bytes.
NoFile == "nofile"
Other == "other"
PayloadBytes(n) == "bytes:" \o n

RECURSIVE SeqsUpTo(_)
SeqsUpTo(k) ==
    IF k = 0 THEN {<<>>}
    ELSE LET S == SeqsUpTo(k - 1)
         IN  S \cup {Append(s, n) : s \in {t \in S : Len(t) = k - 1}, n \in Names}

VARIABLES
    enabled,        \* BinariesConfig.Enabled
    useEmbedded,    \* BinariesConfig.UseEmbedded
    startupOrder,   \* BinariesConfig.StartupOrder
    payload,        \* embed.FS: name -> bytes of bin/<name>, or NoFile
    dirExists,      \* whether the directory cacheDir exists on disk
    files,          \* name -> contents of cacheDir/<name>
    constructed,    \* "pending" | "failed" | "ok": outcome of NewBinaryManagerFromConfig
    constructErr,   \* error returned by the constructor ("none" when it succeeded)
    execOrder,      \* BinaryManager.execOrder
    processes,      \* BinaryManager.processes: sequence of pids (one *exec.Cmd each)
    procs,          \* OS process table: pid -> [name, state, waiter]
    pc,             \* position of the StartAll caller
    calls,          \* StartAll calls begun so far: "none" | "first" | "later"
    idx,            \* loop index of StartAll (1-based)
    successCount,   \* StartAll's local successCount
    startAllResult, \* value returned by the last completed StartAll
    launched,       \* history: <<position, pid>> of each spawn this StartAll call obtained
    attempted,      \* history: loop positions for which this StartAll called startBinary
    att,            \* history: what the current (or last) startBinary call did
    cur,            \* pid of the cmd being started by the current startBinary, 0 if none
    pcClean,        \* position of the Cleanup caller
    cleanRange,     \* slice captured by Cleanup's range statement
    cleanIdx,       \* loop index of Cleanup (1-based)
    killLog,        \* history: Kill attempts of the current Cleanup call
    cleanResult,    \* "none" | "returned": what the returning Cleanup call hands its caller
    lastClean,      \* history: supervisor snapshot at the last Cleanup return, if any
    prevClean,      \* history: supervisor snapshot at the Cleanup return before that
    ctxDone,        \* the context.Context handed to StartAll has been cancelled
    ctxKilled,      \* history: the cancelled context has killed some process
    skipped         \* history: App callbacks that ran with a nil binaryManager

vars == <<enabled, useEmbedded, startupOrder, payload, dirExists, files,
          constructed, constructErr, execOrder, processes, procs,
          pc, calls, idx, successCount, startAllResult, launched, attempted, att, cur,
          pcClean, cleanRange, cleanIdx, killLog, cleanResult, lastClean, prevClean,
          ctxDone, ctxKilled, skipped>>

cfgVars == <<enabled, useEmbedded, startupOrder, payload>>
fsVars == <<dirExists, files>>
bmVars == <<constructed, constructErr, execOrder>>
startVars == <<pc, calls, idx, successCount, startAllResult, launched, attempted, att, cur>>
cleanVars == <<pcClean, cleanRange, cleanIdx, killLog, cleanResult, lastClean, prevClean>>
ctxVars == <<ctxDone, ctxKilled>>

NoAttempt ==
    [idx |-> 0, name |-> "", resolved |-> FALSE, chmodOk |-> FALSE, wrote |-> FALSE,
     spawnTried |-> FALSE, pid |-> 0, appended |-> FALSE, result |-> "none"]

NoSnapshot == [valid |-> FALSE, handles |-> <<>>, alive |-> {}]

\* ------------------------------------------------------------------ Init
Init ==
    /\ enabled \in BOOLEAN
    /\ useEmbedded \in BOOLEAN
    /\ startupOrder \in SeqsUpTo(MaxOrder)
    /\ payload \in {[n \in Names |-> IF n \in S THEN PayloadBytes(n) ELSE NoFile] : S \in SUBSET Names}
    /\ dirExists \in BOOLEAN
    /\ ~useEmbedded => \A n \in Names : payload[n] = NoFile
    /\ files \in [Names -> {NoFile, Other}]
    /\ ~dirExists => \A n \in Names : files[n] = NoFile
    /\ constructed = "pending"
    /\ constructErr = "none"
    /\ execOrder = <<>>
    /\ processes = <<>>
    /\ procs = <<>>
    /\ pc = "idle"
    /\ calls = "none"
    /\ idx = 0
    /\ successCount = 0
    /\ startAllResult = "none"
    /\ launched = <<>>
    /\ attempted = <<>>
    /\ att = NoAttempt
    /\ cur = 0
    /\ pcClean = "idle"
    /\ cleanRange = <<>>
    /\ cleanIdx = 0
    /\ killLog = <<>>
    /\ cleanResult = "none"
    /\ lastClean = NoSnapshot
    /\ prevClean = NoSnapshot
    /\ ctxDone = FALSE
    /\ ctxKilled = FALSE
    /\ skipped = {}

\* ---------------------------------------------------------- construction
\* Variant: the startup_order emptiness check is missing.
ValidateConfigNoEmptyCheck(en, order) == IF ~en THEN "disabled" ELSE "ok"

\* NewBinaryManagerFromConfig's checks before anything touches the disk.
ValidateConfig(en, order) ==
    IF ~en THEN "disabled"
    ELSE IF Len(order) = 0 THEN "empty"
    ELSE "ok"

\* NewBinaryManagerFromConfig + NewBinaryManager.  envOk is the outcome of
\* os.UserCacheDir / filepath.Abs, mkdirOk the outcome of os.MkdirAll.
Construct ==
    /\ constructed = "pending"
    /\ \E envOk \in BOOLEAN, mkdirOk \in BOOLEAN :
        LET v == ValidateConfig(enabled, startupOrder) IN
        IF v # "ok"
        THEN /\ constructed' = "failed"
             /\ constructErr' = v
             /\ UNCHANGED <<execOrder, dirExists>>
        ELSE IF ~envOk
        THEN /\ constructed' = "failed"
             /\ constructErr' = IF useEmbedded THEN "cachedir" ELSE "abs"
             /\ UNCHANGED <<execOrder, dirExists>>
        ELSE IF useEmbedded /\ ~dirExists /\ ~mkdirOk
        THEN /\ constructed' = "failed"
             /\ constructErr' = "mkdir"
             /\ UNCHANGED <<execOrder, dirExists>>
        ELSE /\ constructed' = "ok"
             /\ constructErr' = "none"
             /\ execOrder' = startupOrder
             /\ dirExists' = IF useEmbedded THEN TRUE ELSE dirExists
    /\ UNCHANGED <<cfgVars, skipped, ctxVars, files, processes, procs, startVars, cleanVars>>

\* ------------------------------------------------------------- StartAll
NewAttempt(i, n) ==
    [idx |-> i, name |-> n, resolved |-> FALSE, chmodOk |-> FALSE, wrote |-> FALSE,
     spawnTried |-> FALSE, pid |-> 0, appended |-> FALSE, result |-> "pending"]

\* Variant: the loop walks execOrder from its end.
AttemptNameReversed(order, i) == order[Len(order) + 1 - i]

\* range bm.execOrder: the name visited at loop position i.
AttemptName(order, i) == order[i]

\* Variant: the first failure ends the loop ("break" instead of "continue").
AfterFailureBreak(i, n) == n + 1

\* The loop position after startBinary returned an error at position i of n
\* ("continue": go on with the next name).
AfterFailure(i, n) == i + 1

\* successCount after a failed attempt (it is only incremented on success).
CountAfterFailure(sc) == sc

\* Variant: all-or-nothing, an error unless every binary started.
StartAllResultAllOrNothing(sc) == IF sc < Len(execOrder) THEN "err" ELSE "nil"

\* StartAll's return value, from its successCount.
StartAllResult(sc) == IF sc = 0 THEN "err" ELSE "nil"

\* Variant: the error of fs.ReadFile / os.Stat is ignored.
ResolveOkIgnored(emb, n) == TRUE

\* startBinary's resolution test: fs.ReadFile succeeds (embedded) / os.Stat succeeds (local).
ResolveOk(emb, n) == IF emb THEN payload[n] # NoFile ELSE files[n] # NoFile

\* Variant: the slice is overwritten with the new cmd instead of extended.
AppendProcessOverwrite(ps, p) == <<p>>

\* bm.processes after append(bm.processes, cmd).
AppendProcess(ps, p) == Append(ps, p)

GetProcessCount == Len(processes)

\* Variant: App calls the supervisor without the nil check.
ManagerPresentUnchecked == constructed # "pending"

\* a.binaryManager != nil: NewApp stores the supervisor only when its
\* construction succeeded.
ManagerPresent == constructed = "ok"

\* App.startup with a nil binaryManager: StartAll is not called.
StartupNoManager ==
    /\ constructed = "failed"
    /\ ~ManagerPresent
    /\ skipped = {}
    /\ skipped' = {"startup"}
    /\ UNCHANGED <<cfgVars, ctxVars, fsVars, bmVars, processes, procs, startVars, cleanVars>>

\* App.shutdown with a nil binaryManager: Cleanup is not called.
ShutdownNoManager ==
    /\ constructed = "failed"
    /\ ~ManagerPresent
    /\ skipped = {"startup"}
    /\ skipped' = {"startup", "shutdown"}
    /\ UNCHANGED <<cfgVars, ctxVars, fsVars, bmVars, processes, procs, startVars, cleanVars>>

StartAllBegin ==
    /\ ManagerPresent
    /\ pc = "idle"
    /\ pcClean = "idle"
    /\ pc' = "loop"
    /\ calls' = IF calls = "none" THEN "first" ELSE "later"
    /\ idx' = 1
    /\ successCount' = 0
    /\ startAllResult' = "none"
    /\ launched' = <<>>
    /\ attempted' = <<>>
    /\ att' = NoAttempt
    /\ cur' = 0
    /\ lastClean' = NoSnapshot
    /\ prevClean' = NoSnapshot
    /\ UNCHANGED <<cfgVars, skipped, ctxVars, fsVars, bmVars, processes, procs,
                   pcClean, cleanRange, cleanIdx, killLog, cleanResult>>

\* Loop head, a name is left: call startBinary for it.
BeginAttempt ==
    /\ pc = "loop"
    /\ idx <= Len(execOrder)
    /\ attempted' = Append(attempted, idx)
    /\ att' = NewAttempt(idx, AttemptName(execOrder, idx))
    /\ pc' = "resolve"
    /\ UNCHANGED <<cfgVars, skipped, ctxVars, fsVars, bmVars, processes, procs,
                   calls, idx, successCount, startAllResult, launched, cur, cleanVars>>

\* Loop head, no name is left: return.
StartAllReturn ==
    /\ pc = "loop"
    /\ idx > Len(execOrder)
    /\ startAllResult' = StartAllResult(successCount)
    /\ pc' = "returned"
    /\ UNCHANGED <<cfgVars, skipped, ctxVars, fsVars, bmVars, processes, procs,
                   calls, idx, successCount, launched, attempted, att, cur, cleanVars>>

\* The caller takes the result (App.startup logs a warning on error) and goes
\* on; StartAll's frame is gone.
StartAllDone ==
    /\ pc = "returned"
    /\ pc' = "idle"
    /\ idx' = 0
    /\ successCount' = 0
    /\ startAllResult' = "none"
    /\ launched' = <<>>
    /\ attempted' = <<>>
    /\ att' = NoAttempt
    /\ UNCHANGED <<cfgVars, skipped, ctxVars, fsVars, bmVars, processes, procs, calls, cur, cleanVars>>

\* startBinary returned an error: log, continue.  a is the attempt's final record.
FailWith(a) ==
    /\ att' = [a EXCEPT !.result = "err"]
    /\ successCount' = CountAfterFailure(successCount)
    /\ idx' = AfterFailure(idx, Len(execOrder))
    /\ pc' = "loop"
    /\ cur' = 0

\* Variant: a failed os.Chmod is returned as the attempt's error.
ChmodAbortsOnError(ok) == ~ok

\* Whether os.Chmod's outcome ends the attempt: its error is only logged.
ChmodAborts(ok) == FALSE

\* fs.ReadFile of the embedded binary, or os.Stat + os.Chmod of the local one.
Resolve ==
    /\ pc = "resolve"
    /\ IF ~ResolveOk(useEmbedded, att.name)
       THEN /\ FailWith(att)
       ELSE IF useEmbedded
       THEN /\ att' = [att EXCEPT !.resolved = TRUE]
            /\ pc' = "write"
            /\ UNCHANGED <<idx, successCount, cur>>
       ELSE \E ok \in BOOLEAN :
               LET a == [att EXCEPT !.resolved = TRUE, !.chmodOk = ok] IN
               IF ChmodAborts(ok)
               THEN FailWith(a)
               ELSE /\ att' = a
                    /\ pc' = "spawn"
                    /\ UNCHANGED <<idx, successCount, cur>>
    /\ UNCHANGED <<cfgVars, skipped, ctxVars, fsVars, bmVars, processes, procs,
                   calls, startAllResult, launched, attempted, cleanVars>>

\* Some live process is executing cacheDir/n.
Executing(n) == \E p \in DOMAIN procs : procs[p].name = n /\ procs[p].state = "running"

\* os.WriteFile(cacheDir/name, data, 0755): it may succeed, fail before the file
\* is opened (file untouched) or fail after the file was truncated (a write
\* error after O_TRUNC).  The last outcome is taken only while no live process
\* executes the file: an executing file is refused at open on some systems.
WriteBinary ==
    /\ pc = "write"
    /\ \E outcome \in {"ok", "failUntouched", "failTruncated"} :
          /\ outcome = "failTruncated" => ~Executing(att.name)
          /\ IF outcome = "ok"
             THEN /\ files' = [files EXCEPT ![att.name] = payload[att.name]]
                  /\ att' = [att EXCEPT !.wrote = TRUE]
                  /\ pc' = "spawn"
                  /\ UNCHANGED <<idx, successCount, cur>>
             ELSE /\ files' = IF outcome = "failTruncated"
                              THEN [files EXCEPT ![att.name] = Other] ELSE files
                  /\ FailWith(att)
    /\ UNCHANGED <<cfgVars, skipped, ctxVars, dirExists, bmVars, processes, procs,
                   calls, startAllResult, launched, attempted, cleanVars>>

\* Variant: a failed Start removes the file the attempt was to execute.
FilesAfterSpawnFailureRemoved(fs, n) == [fs EXCEPT ![n] = NoFile]

\* The files of cacheDir after cmd.Start failed for name n: startBinary returns
\* the error and touches no file.
FilesAfterSpawnFailure(fs, n) == fs

\* exec.CommandContext + cmd.Start: the OS spawns the process or refuses; Start
\* returns ctx.Err() without spawning when the context is already done.
Spawn ==
    /\ pc = "spawn"
    /\ LET tried == [att EXCEPT !.spawnTried = TRUE] IN
       \E ok \in BOOLEAN :
          IF ok /\ ~ctxDone /\ files[att.name] # NoFile /\ Len(procs) < MaxProcs
          THEN /\ procs' = Append(procs, [name |-> att.name, state |-> "running",
                                          waiter |-> "none"])
               /\ launched' = Append(launched, <<idx, Len(procs) + 1>>)
               /\ cur' = Len(procs) + 1
               /\ att' = [tried EXCEPT !.pid = Len(procs) + 1]
               /\ pc' = "append"
               /\ UNCHANGED <<idx, successCount, files>>
          ELSE /\ FailWith(tried)
               /\ files' = FilesAfterSpawnFailure(files, att.name)
               /\ UNCHANGED <<procs, launched>>
    /\ UNCHANGED <<cfgVars, skipped, ctxVars, dirExists, bmVars, processes,
                   calls, startAllResult, attempted, cleanVars>>

\* bm.processes = append(bm.processes, cmd)
AppendHandle ==
    /\ pc = "append"
    /\ processes' = AppendProcess(processes, cur)
    /\ att' = [att EXCEPT !.appended = TRUE]
    /\ pc' = "gowait"
    /\ UNCHANGED <<cfgVars, skipped, ctxVars, fsVars, bmVars, procs,
                   calls, idx, successCount, startAllResult, launched, attempted, cur,
                   cleanVars>>

\* Variant: startBinary calls process.Wait() itself before it returns.
ReturnAfterSpawnWaits(p) == procs[p].state = "exited"

\* startBinary returns as soon as the waiter goroutine is started: Wait is
\* called inside the goroutine only, so nothing about process p is awaited.
ReturnAfterSpawn(p) == TRUE

\* go func(){ process.Wait() }(); return nil; successCount++
StartWaiter ==
    /\ pc = "gowait"
    /\ ReturnAfterSpawn(cur)
    /\ procs' = [procs EXCEPT ![cur].waiter = "waiting"]
    /\ att' = [att EXCEPT !.result = "ok"]
    /\ successCount' = successCount + 1
    /\ idx' = idx + 1
    /\ cur' = 0
    /\ pc' = "loop"
    /\ UNCHANGED <<cfgVars, skipped, ctxVars, fsVars, bmVars, processes,
                   calls, startAllResult, launched, attempted, cleanVars>>

\* ------------------------------------------------ processes and waiters
\* A child process exits on its own.
ProcessExit(p) ==
    /\ procs[p].state = "running"
    /\ procs' = [procs EXCEPT ![p].state = "exited"]
    /\ UNCHANGED <<cfgVars, skipped, ctxVars, fsVars, bmVars, processes, startVars, cleanVars>>

\* The application's context is cancelled.
CancelCtx ==
    /\ constructed = "ok"
    /\ ~ctxDone
    /\ ctxDone' = TRUE
    /\ UNCHANGED <<cfgVars, skipped, fsVars, bmVars, processes, procs, startVars, cleanVars,
                   ctxKilled>>

\* Variant: the cmd is built with exec.Command, bound to no context.
CtxBoundNever(p) == FALSE

\* exec.CommandContext(ctx, executablePath): every cmd is bound to StartAll's ctx.
CtxBound(p) == TRUE

\* os/exec kills a started process whose context is done before it has exited.
CtxKill(p) ==
    /\ p \in DOMAIN procs
    /\ ctxDone
    /\ CtxBound(p)
    /\ procs[p].state = "running"
    /\ procs' = [procs EXCEPT ![p].state = "exited"]
    /\ ctxKilled' = TRUE
    /\ UNCHANGED <<cfgVars, skipped, fsVars, bmVars, processes, startVars, cleanVars, ctxDone>>

\* Variant: Wait returns whether or not the process has exited.
WaitReturnsEarly(p) == TRUE

\* process.Wait() blocks until the process has exited.
WaitReturns(p) == procs[p].state = "exited"

\* The waiter goroutine's process.Wait() returns once the process has exited.
WaiterObserve(p) ==
    /\ procs[p].waiter = "waiting"
    /\ WaitReturns(p)
    /\ procs' = [procs EXCEPT ![p].waiter = "done"]
    /\ UNCHANGED <<cfgVars, skipped, ctxVars, fsVars, bmVars, processes, startVars, cleanVars>>

\* -------------------------------------------------------------- Cleanup
\* cmd.Process != nil: the cmd was started (every appended cmd was).
ProcessNonNil(p) == p \in DOMAIN procs

\* cmd.Process.Kill(): fails with "process already finished" once Wait has returned.
KillOk(p) == procs[p].waiter # "done"

\* Variant: a failed Kill ends the loop.
AfterKillAbort(i, ok, n) == IF ok THEN i + 1 ELSE n + 1

\* The loop position after the Kill at position i of n returned ok (logging only).
AfterKill(i, ok, n) == i + 1

\* Variant: Cleanup drops the first handle of the slice on every call.
ProcessesAfterCleanupPop(ps) == IF Len(ps) = 0 THEN ps ELSE Tail(ps)

\* Variant: Cleanup resets the slice once every handle was killed.
ProcessesAfterCleanupCleared(ps) == <<>>

\* bm.processes when Cleanup returns (Cleanup does not assign to it).
ProcessesAfterCleanup(ps) == ps

Snapshot(ps) ==
    [valid |-> TRUE, handles |-> ps,
     alive |-> {p \in DOMAIN procs : procs[p].state = "running"}]

CleanupBegin ==
    /\ ManagerPresent
    /\ pcClean = "idle"
    /\ pc = "idle"
    /\ pcClean' = "loop"
    /\ cleanRange' = processes
    /\ cleanIdx' = 1
    /\ killLog' = <<>>
    /\ cleanResult' = "none"
    /\ UNCHANGED <<cfgVars, skipped, ctxVars, fsVars, bmVars, processes, procs, startVars, lastClean, prevClean>>

\* One iteration of the loop: Kill the handle's process if it has one.
CleanupKill ==
    /\ pcClean = "loop"
    /\ cleanIdx <= Len(cleanRange)
    /\ LET p == cleanRange[cleanIdx]
           ok == KillOk(p) IN
       IF ProcessNonNil(p)
       THEN /\ procs' = IF ok THEN [procs EXCEPT ![p].state = "exited"] ELSE procs
            /\ killLog' = Append(killLog, [pid |-> p, ok |-> ok])
            /\ cleanIdx' = AfterKill(cleanIdx, ok, Len(cleanRange))
       ELSE /\ cleanIdx' = cleanIdx + 1
            /\ UNCHANGED <<procs, killLog>>
    /\ UNCHANGED <<cfgVars, skipped, ctxVars, fsVars, bmVars, processes, startVars,
                   pcClean, cleanRange, cleanResult, lastClean, prevClean>>

\* Variant: Cleanup joins the waiter of every handle before it returns.
CleanupMayReturnJoined(ps) == \A i \in 1..Len(ps) : procs[ps[i]].waiter = "done"

\* Cleanup returns when its loop is over: it has no channel, WaitGroup or Wait
\* call, so no waiter is awaited.
CleanupMayReturn(ps) == TRUE

CleanupReturn ==
    /\ pcClean = "loop"
    /\ cleanIdx > Len(cleanRange)
    /\ CleanupMayReturn(cleanRange)
    /\ pcClean' = "returned"
    /\ cleanResult' = "returned"
    /\ processes' = ProcessesAfterCleanup(processes)
    /\ lastClean' = Snapshot(processes')
    /\ prevClean' = lastClean
    /\ UNCHANGED <<cfgVars, skipped, ctxVars, fsVars, bmVars, procs, startVars,
                   cleanRange, cleanIdx, killLog>>

\* The caller (App.shutdown) goes on; Cleanup's frame is gone.
CleanupDone ==
    /\ pcClean = "returned"
    /\ pcClean' = "idle"
    /\ cleanRange' = <<>>
    /\ cleanIdx' = 0
    /\ killLog' = <<>>
    /\ cleanResult' = "none"
    /\ prevClean' = NoSnapshot
    /\ UNCHANGED <<cfgVars, skipped, ctxVars, fsVars, bmVars, processes, procs, startVars, lastClean>>

\* Cleanup entered from another goroutine while a StartAll call is in flight.
\* BinaryManager has no lock, so the range statement's read of bm.processes is
\* unsynchronised with startBinary's append.  Read while the append is being
\* written (pc = "append"), the slice header is the old one, the new one, or a
\* torn mix of both whose iteration faults and ends the program.
CleanupBeginConcurrent ==
    /\ ManagerPresent
    /\ pcClean = "idle"
    /\ pc \notin {"idle", "crashed"}
    /\ \E view \in (IF pc = "append" THEN {"old", "new", "torn"} ELSE {"old"}) :
          IF view = "torn"
          THEN /\ pcClean' = "crashed"
               /\ pc' = "crashed"
               /\ cleanResult' = "crashed"
               /\ UNCHANGED <<cleanRange, cleanIdx, killLog>>
          ELSE /\ pcClean' = "loop"
               /\ cleanRange' = IF view = "new" THEN Append(processes, cur) ELSE processes
               /\ cleanIdx' = 1
               /\ killLog' = <<>>
               /\ cleanResult' = "none"
               /\ pc' = pc
    /\ UNCHANGED <<cfgVars, skipped, ctxVars, fsVars, bmVars, processes, procs,
                   calls, idx, successCount, startAllResult, launched, attempted, att, cur,
                   lastClean, prevClean>>

\* ---------------------------------------------------------------- Next
Next ==
    \/ Construct
    \/ StartupNoManager
    \/ ShutdownNoManager
    \/ StartAllBegin
    \/ BeginAttempt
    \/ Resolve
    \/ WriteBinary
    \/ Spawn
    \/ AppendHandle
    \/ StartWaiter
    \/ StartAllReturn
    \/ StartAllDone
    \/ \E p \in DOMAIN procs : ProcessExit(p)
    \/ \E p \in DOMAIN procs : WaiterObserve(p)
    \/ CancelCtx
    \/ \E p \in 1..MaxProcs : CtxKill(p)
    \/ CleanupBegin
    \/ CleanupKill
    \/ CleanupReturn
    \/ CleanupDone

Spec == Init /\ [][Next]_vars

\* A step of the goroutine running StartAll, and one of that running Cleanup.
StartAllStep ==
    BeginAttempt \/ Resolve \/ WriteBinary \/ Spawn \/ AppendHandle \/ StartWaiter
        \/ StartAllReturn

CleanupStep == CleanupKill \/ CleanupReturn

\* App.startup: the application calls StartAll once, when it starts.
AppStartup ==
    /\ calls = "none"
    /\ StartAllBegin

\* App.shutdown: the application calls Cleanup once, after startup has run.
AppShutdown ==
    /\ calls # "none"
    /\ ~lastClean.valid
    /\ CleanupBegin

\* The application's own use of the supervisor (main: OnStartup, OnShutdown).
NextApp ==
    \/ Construct
    \/ StartupNoManager
    \/ ShutdownNoManager
    \/ AppStartup
    \/ BeginAttempt
    \/ Resolve
    \/ WriteBinary
    \/ Spawn
    \/ AppendHandle
    \/ StartWaiter
    \/ StartAllReturn
    \/ StartAllDone
    \/ \E p \in DOMAIN procs : ProcessExit(p)
    \/ \E p \in DOMAIN procs : WaiterObserve(p)
    \/ CancelCtx
    \/ \E p \in 1..MaxProcs : CtxKill(p)
    \/ AppShutdown
    \/ CleanupKill
    \/ CleanupReturn
    \/ CleanupDone

\* The application under the scheduling the Go runtime gives: a goroutine that
\* can take its next step takes it, and os/exec delivers the kill of a
\* cancelled context.  Children are not obliged to exit and waiters are not
\* obliged to run.
SpecFair ==
    /\ Init /\ [][NextApp]_vars
    /\ WF_vars(StartAllStep)
    /\ WF_vars(CleanupStep)
    /\ \A p \in 1..MaxProcs : WF_vars(CtxKill(p))

\* The same program with App.shutdown allowed to run while App.startup's
\* StartAll is still in flight.
NextConc ==
    \/ Next
    \/ CleanupBeginConcurrent

SpecConc == Init /\ [][NextConc]_vars

\* ------------------------------------------------------------ properties
InStartBinary == pc \in {"resolve", "write", "spawn", "append", "gowait"}

\* The name at position att.idx cannot be resolved: no embedded bytes (embedded
\* mode), no file cacheDir/name (local mode).
Unresolvable(a) ==
    IF useEmbedded THEN payload[a.name] = NoFile ELSE files[a.name] = NoFile

\* C1: StartAll returns an error if and only if no launch of that call
\* succeeded; with one or more successes it returns nil, however many failed.
C1_ErrorIffNoLaunch ==
    pc = "returned" => (startAllResult = "err" <=> Len(launched) = 0)

C1_Witness ==
    /\ pc = "returned"
    /\ startAllResult = "nil"
    /\ Len(launched) = 1
    /\ Len(execOrder) = 2

\* C2: when the first StartAll on a supervisor returns, GetProcessCount() is the
\* number of launches that succeeded in that call.
C2_CountIsSuccesses ==
    (pc = "returned" /\ calls = "first") =>
        /\ GetProcessCount = Len(launched)
        /\ GetProcessCount = Len(procs)
        /\ (GetProcessCount = Len(execOrder) => Len(launched) = Len(attempted))

C2_Witness ==
    /\ pc = "returned"
    /\ calls = "first"
    /\ GetProcessCount = 1
    /\ Len(execOrder) = 2
    /\ att.result = "err"

C2_WitnessAllLaunched ==
    /\ pc = "returned"
    /\ calls = "first"
    /\ GetProcessCount = 2

\* C3: len(running) <= len(execOrder) in every reachable state, StartAll being
\* invoked more than once included.
C3_CountWithinOrder == Len(processes) <= Len(execOrder)

\* C4: every name of execOrder is attempted exactly once per StartAll call, also
\* the names after a failed one.
C4_EveryNameAttempted ==
    /\ attempted = [k \in 1..Len(attempted) |-> k]
    /\ Len(attempted) <= Len(execOrder)
    /\ pc = "returned" => Len(attempted) = Len(execOrder)

C4_Witness ==
    /\ pc = "returned"
    /\ Len(execOrder) = 2
    /\ launched = <<<<2, 1>>>>
    /\ attempted = <<1, 2>>

\* C5: attempts are made one at a time in execOrder sequence, and the handles a
\* StartAll call appends are in the order of their positions in execOrder.
C5_SequentialInOrder ==
    /\ \A k \in 1..Len(attempted) : attempted[k] = k
    /\ att.result = "pending" <=> InStartBinary
    /\ att.idx > 0 => /\ att.idx = attempted[Len(attempted)]
                      /\ att.name = execOrder[att.idx]
    /\ \A k \in 1..Len(launched) :
          /\ launched[k][1] \in 1..Len(attempted)
          /\ procs[launched[k][2]].name = execOrder[launched[k][1]]
          /\ k > 1 => launched[k - 1][1] < launched[k][1]
    /\ LET n == IF pc = "append" THEN Len(launched) - 1 ELSE Len(launched) IN
       /\ n <= Len(processes)
       /\ \A k \in 1..n : processes[Len(processes) - n + k] = launched[k][2]

C5_Witness ==
    /\ pc = "returned"
    /\ Len(launched) = 2
    /\ execOrder = <<"b", "a">>
    /\ Len(processes) = 2

\* C6: Cleanup never fails, and a Cleanup that directly follows a Cleanup leaves
\* the supervisor (its handles and their live processes) as the first one left it.
C6_CleanupIdempotent ==
    pcClean = "returned" =>
        /\ cleanResult = "returned"
        /\ prevClean.valid => lastClean = prevClean

C6_Witness ==
    /\ pcClean = "returned"
    /\ prevClean.valid
    /\ Len(processes) = 2
    /\ \A k \in 1..Len(killLog) : ~killLog[k].ok

C6_WitnessEmpty ==
    /\ pcClean = "returned"
    /\ prevClean.valid
    /\ Len(processes) = 0

\* C7: Cleanup attempts to kill every handle of bm.processes in append order, a
\* failed Kill does not stop it, and it hands no error to its caller.
C7_KillsEveryHandle ==
    /\ pcClean \in {"loop", "returned"} =>
          /\ Len(killLog) <= Len(cleanRange)
          /\ \A k \in 1..Len(killLog) : killLog[k].pid = cleanRange[k]
    /\ pcClean = "returned" =>
          /\ [k \in 1..Len(killLog) |-> killLog[k].pid] = processes
          /\ cleanResult = "returned"

C7_Witness ==
    /\ pcClean = "returned"
    /\ Len(killLog) = 2
    /\ ~killLog[1].ok
    /\ killLog[2].ok

\* C8: construction with a disabled setting or an empty startup order fails with
\* a configuration error and changes nothing on disk, in either mode.
C8_InvalidConfigNoSideEffect ==
    [][ (constructed = "pending" /\ constructed' # "pending"
           /\ (~enabled \/ startupOrder = <<>>))
        => /\ constructed' = "failed"
           /\ constructErr' \in {"disabled", "empty"}
           /\ dirExists' = dirExists
           /\ files' = files ]_vars

C8_Witness ==
    /\ constructed = "failed"
    /\ constructErr = "empty"
    /\ useEmbedded
    /\ ~dirExists

\* C9: an attempt for a name that cannot be resolved fails; it spawns nothing,
\* appends no handle and (embedded mode) writes no file.
C9_UnresolvedNotLaunched ==
    (att.idx > 0 /\ Unresolvable(att)) =>
        /\ pc \notin {"write", "spawn", "append", "gowait"}
        /\ att.result \in {"pending", "err"}
        /\ ~att.wrote
        /\ ~att.spawnTried
        /\ att.pid = 0
        /\ ~att.appended
        /\ \A k \in 1..Len(launched) : launched[k][1] # att.idx

C9_Witness ==
    /\ att.idx = 1
    /\ att.result = "err"
    /\ Unresolvable(att)
    /\ ~useEmbedded
    /\ pc = "loop"

C9_WitnessEmbedded ==
    /\ att.result = "err"
    /\ Unresolvable(att)
    /\ useEmbedded
    /\ files[att.name] = NoFile

\* C10: in embedded mode, whenever a handle for a name is in running, the file
\* cacheDir/name holds the payload's bytes for that name.
C10_HandleImpliesFile ==
    useEmbedded =>
        \A k \in 1..Len(processes) :
            LET n == procs[processes[k]].name IN
            /\ payload[n] # NoFile
            /\ files[n] = payload[n]

\* C11: a name appears at most once in running: construction rejects or
\* de-duplicates a startup order with a repeated name, so no two handles refer
\* to the same name.
C11_UniqueNames ==
    /\ constructed = "ok" =>
          \A i, j \in 1..Len(execOrder) : i # j => execOrder[i] # execOrder[j]
    /\ \A i, j \in 1..Len(processes) :
          i # j => procs[processes[i]].name # procs[processes[j]].name

\* C12: when Cleanup runs concurrently with an in-flight StartAll, the append
\* path and the iteration path exclude each other (no append to running while
\* Cleanup iterates, no faulting read), and every process spawned before Cleanup
\* finished iterating was visited by it.
C12_CleanupExcludesStartAll ==
    [][ /\ pcClean = "loop" => processes' = processes
        /\ pcClean' # "crashed"
        /\ (pcClean = "loop" /\ pcClean' = "returned") =>
              \A p \in DOMAIN procs : \E k \in 1..Len(killLog) : killLog[k].pid = p
      ]_vars

\* Live processes a Cleanup call would kill, and those a cancelled context kills.
CleanupTargets ==
    {processes[i] : i \in {j \in 1..Len(processes) : procs[processes[j]].state = "running"}}

CtxTargets == {p \in DOMAIN procs : CtxBound(p) /\ procs[p].state = "running"}

\* C13: every spawned process is bound to the context passed to StartAll: the
\* processes its cancellation terminates are the live processes of running,
\* the ones a Cleanup call at that moment would kill (outside startBinary's
\* step between spawn and append), and once the context is cancelled every
\* spawned process eventually has exited.
C13_CancelTerminatesAll ==
    /\ [](pc # "append" => CtxTargets = CleanupTargets)
    /\ \A p \in 1..MaxProcs :
          (ctxDone /\ p \in DOMAIN procs) ~>
              (p \in DOMAIN procs /\ procs[p].state = "exited")

C13_Witness ==
    /\ ctxDone
    /\ ctxKilled
    /\ Len(processes) = 2
    /\ \A p \in DOMAIN procs : procs[p].state = "exited"
    /\ ~lastClean.valid

\* C14: StartAll terminates after its one attempt per name even if no launched
\* process ever exits: it never waits on a waiter, and a waiter observing an
\* exit changes neither successCount nor the value StartAll returns.
C14_StartAllTerminates ==
    /\ (pc = "loop" \/ InStartBinary) ~> (pc = "returned")
    /\ [][ (\E p \in DOMAIN procs : procs[p].waiter = "waiting" /\ procs'[p].waiter = "done")
              => UNCHANGED <<pc, idx, successCount, startAllResult>> ]_vars

C14_Witness ==
    /\ pc = "returned"
    /\ Len(attempted) = 2
    /\ Len(launched) = 2
    /\ startAllResult = "nil"
    /\ \A p \in DOMAIN procs : procs[p].state = "running" /\ procs[p].waiter = "waiting"

\* C15: when construction fails the application goes on without a supervisor
\* and never uses it: startup calls no StartAll, shutdown no Cleanup, nothing is
\* spawned.  A StartAll that returns the no-binaries error leaves the
\* application running, and a Cleanup after it returns normally with nothing
\* to kill.
C15_FailedConstructionUnused ==
    /\ constructed = "failed" =>
          /\ pc = "idle" /\ calls = "none" /\ attempted = <<>> /\ launched = <<>>
          /\ pcClean = "idle" /\ killLog = <<>> /\ ~lastClean.valid
          /\ procs = <<>> /\ processes = <<>>
    /\ skipped # {} => constructed = "failed"
    /\ (pc = "returned" /\ startAllResult = "err") => ENABLED StartAllDone
    /\ (pcClean = "returned" /\ calls = "first" /\ processes = <<>>) =>
          cleanResult = "returned" /\ killLog = <<>>

C15_Witness ==
    /\ constructed = "failed"
    /\ skipped = {"startup", "shutdown"}

C15_WitnessNoBinaries ==
    /\ pcClean = "returned"
    /\ calls = "first"
    /\ processes = <<>>
    /\ cleanResult = "returned"

\* C16: each launched process gets exactly one waiter, started only after its
\* handle was appended to running; the waiter marks the exit observed once, only
\* after the process has exited, and never restarts the process.
C16_OneWaiterAfterAppend ==
    /\ [](\A p \in DOMAIN procs :
            /\ procs[p].waiter # "none" => \E i \in 1..Len(processes) : processes[i] = p
            /\ p # cur => procs[p].waiter # "none"
            /\ procs[p].waiter = "done" => procs[p].state = "exited")
    /\ [][ \A p \in DOMAIN procs :
            /\ procs'[p].waiter # procs[p].waiter =>
                  \/ procs[p].waiter = "none" /\ procs'[p].waiter = "waiting"
                  \/ /\ procs[p].waiter = "waiting" /\ procs'[p].waiter = "done"
                     /\ procs[p].state = "exited"
                     /\ Len(procs') = Len(procs)
            /\ procs[p].state = "exited" => procs'[p].state = "exited"
            /\ procs'[p].name = procs[p].name ]_vars

C16_Witness ==
    /\ Len(processes) = 2
    /\ procs[processes[1]].waiter = "done"
    /\ procs[processes[1]].state = "exited"
    /\ procs[processes[2]].waiter = "waiting"
    /\ procs[processes[2]].state = "running"

\* C17: Cleanup returns once it has requested termination of every handle,
\* without waiting for any waiter: it terminates even if no waiter ever
\* observes an exit, and its steps leave every waiter as it was.
C17_CleanupDoesNotWait ==
    /\ (pcClean = "loop") ~> (pcClean = "returned")
    /\ [][ (pcClean = "loop" /\ (cleanIdx' # cleanIdx \/ pcClean' # pcClean)) =>
              \A p \in DOMAIN procs : procs'[p].waiter = procs[p].waiter ]_vars

C17_Witness ==
    /\ pcClean = "returned"
    /\ Len(killLog) = 2
    /\ \A k \in 1..2 : killLog[k].ok
    /\ \A p \in DOMAIN procs : procs[p].state = "exited" /\ procs[p].waiter = "waiting"

\* C18: in Local mode a failed chmod does not fail the attempt: the spawn is
\* still attempted, only a refused spawn can fail the attempt, and a spawn that
\* succeeds is counted as a success with its handle appended to running.
C18_ChmodFailureNotFatal ==
    (~useEmbedded /\ att.resolved /\ ~att.chmodOk) =>
        /\ att.result = "pending" => pc \in {"spawn", "append", "gowait"}
        /\ att.result = "err" => att.spawnTried /\ att.pid = 0
        /\ att.result = "ok" =>
              /\ att.spawnTried /\ att.pid # 0 /\ att.appended
              /\ \E i \in 1..Len(processes) : processes[i] = att.pid
              /\ \E k \in 1..Len(launched) : launched[k] = <<att.idx, att.pid>>
              /\ successCount = Len(launched)

C18_Witness ==
    /\ ~useEmbedded
    /\ pc = "returned"
    /\ att.resolved
    /\ ~att.chmodOk
    /\ att.result = "ok"
    /\ startAllResult = "nil"

C20_SpawnRefusalLeavesState ==
    [][ (pc = "spawn" /\ pc' = "loop") =>
          /\ att'.result = "err" /\ att'.spawnTried /\ att'.pid = 0 /\ ~att'.appended
          /\ processes' = processes
          /\ procs' = procs
          /\ launched' = launched
          /\ successCount' = successCount
          /\ files' = files
          /\ useEmbedded => att.wrote /\ files'[att.name] = payload[att.name]
      ]_vars

C20_Witness ==
    /\ useEmbedded
    /\ pc = "loop"
    /\ ~ctxDone
    /\ Len(procs) < MaxProcs
    /\ att.spawnTried /\ att.pid = 0 /\ att.result = "err"
    /\ att.wrote
    /\ files[att.name] = payload[att.name]

====
